---- MODULE Spec2Model ----
(***************************************************************************)
(* TreatOrHell (api/index.py): three persona chat endpoints that forward a *)
(* message list to a completion provider, and a form endpoint that writes  *)
(* a four-answer self-assessment to student_responses.txt, which the Angel *)
(* persona reads back into its system prompt.                              *)
(*                                                                         *)
(* Requests are served concurrently.  The handlers that touch the file are *)
(* modelled one system call at a time (open, write, read), because that is *)
(* the grain at which two requests interleave; the handlers that touch no  *)
(* shared state are one action each.  Text is a sequence of tokens.        *)
(***************************************************************************)
EXTENDS Integers, Sequences, FiniteSets, TLC

\* Longest answer of a form post, in tokens.
MaxAnswer == 2
\* Most write system calls the content of one submission goes out in.
MaxWrites == 2

Min(a, b) == IF a < b THEN a ELSE b

\* The requests in flight at once: two slots, each serving one request
\* after another.
Reqs == {1, 2}

VARIABLES
    client,   \* whether OPENAI_API_KEY was set at import (client is not None)
    file,     \* student_responses.txt: [exists, content]
    req,      \* per slot: the handler running, its position, its locals
    \* History of the file, kept for stating the properties:
    lastDone, \* the submission of the latest submit_questions call that ran
              \* to success with no other submission open at any time in it,
              \* while no submission has opened the file since
    failed,   \* a write has failed part-way and no submission has opened the
              \* file since
    sound     \* since the file was last truncated with no request reading it,
              \* no write has failed and no two submissions have overlapped

hist == <<lastDone, failed, sound>>
vars == <<client, file, req, lastDone, failed, sound>>

----------------------------------------------------------------------------
\* Inputs

\* The string of n tokens c.
RECURSIVE Repeat(_, _)
Repeat(c, n) == IF n <= 0 THEN <<>> ELSE <<c>> \o Repeat(c, n - 1)

\* q1, q2, q3, q4 of a form post: non-empty strings.  Two posts, one short
\* and one whose first answer is the longest.
Submissions ==
    { [q1 |-> <<"a">>, q2 |-> <<"a">>, q3 |-> <<"a">>, q4 |-> <<"a">>],
      [q1 |-> Repeat("b", MaxAnswer), q2 |-> <<"b">>, q3 |-> <<"b">>, q4 |-> <<"b">>] }

NoSub == [q1 |-> <<>>, q2 |-> <<>>, q3 |-> <<>>, q4 |-> <<>>]

\* ChatRequest.message
Messages == {"hi", "help"}

\* What the provider answers, and how a call to it fails.
Replies == {"reply1", "reply2"}
ProviderErrors == {"timeout"}
IOErrors == {"ENOSPC"}

----------------------------------------------------------------------------
\* The stored text

Q1 == "Q1 - How did you handle your first assignment in this course?\n"
Q2 == "\n\nQ2 - When you didn't understand something, what did you do?\n"
Q3 == "\n\nQ3 - How do you engage in class?\n"
Q4 == "\n\nQ4 - How many hours did you spend on the assignment?\n"
EOL == "\n"
\* A byte of a hole left by a write past the end of the file.
NUL == "\\0"

\* The f-string of submit_questions: each label, then its answer.
content(q1, q2, q3, q4) ==
    <<Q1>> \o q1 \o <<Q2>> \o q2 \o <<Q3>> \o q3 \o <<Q4>> \o q4 \o <<EOL>>

Serialize(sub) == content(sub.q1, sub.q2, sub.q3, sub.q4)

\* The offsets at which a write system call of the content may end: its
\* end, and for a short write the end of an answer; with MaxWrites calls at
\* most, MaxWrites - 1 such places (the second answer's end first).
Cuts(sub) ==
    LET c1 == 1 + Len(sub.q1)
        c2 == c1 + 1 + Len(sub.q2)
        c3 == c2 + 1 + Len(sub.q3)
        short == <<c2, c1, c3>>
    IN {short[i] : i \in 1..Min(MaxWrites - 1, 3)} \cup {Len(Serialize(sub))}

RECURSIVE Pad(_)
Pad(n) == IF n <= 0 THEN <<>> ELSE <<NUL>> \o Pad(n - 1)

\* write(2) on a descriptor opened "w" (no O_APPEND): the file after writing
\* chunk at the descriptor's own offset pos.  What lies beyond the chunk
\* stays; a gap between the end of the file and pos reads as NULs.
WriteAt(old, pos, chunk) ==
    LET n == Len(chunk)
        head == IF pos <= Len(old) THEN SubSeq(old, 1, pos)
                ELSE old \o Pad(pos - Len(old))
        tail == IF Len(old) > pos + n THEN SubSeq(old, pos + n + 1, Len(old))
                ELSE <<>>
    IN head \o chunk \o tail

\* read at offset pos: everything from there to the current end of file.
ReadFrom(old, pos) ==
    IF pos >= Len(old) THEN <<>> ELSE SubSeq(old, pos + 1, Len(old))

NoFile == [exists |-> FALSE, content |-> <<>>]

\* As open_w, had the file been opened without truncation ("r+", "a").
open_w_keep(f) == [exists |-> TRUE, content |-> f.content]

\* open(responses_path, "w"): the file is created, or truncated to nothing.
open_w(f) == [exists |-> TRUE, content |-> <<>>]

\* What read_student_responses returns: None, or a str.
None == [some |-> FALSE, text |-> <<>>]
Str(t) == [some |-> TRUE, text |-> t]

\* Python truthiness of an Optional[str]: None and "" are falsy.
Truthy(s) == s.some /\ s.text # <<>>

----------------------------------------------------------------------------
\* Prompts and message lists

NICHOLAS_SYSTEM == "You are St. Nicholas (Mikulas). ... Always end on encouragement."
NICHOLAS_USER == "I only studied for 2 hours this week, but I really tried my best!"
NICHOLAS_ASSISTANT == "Ho ho ho! I see you put in some effort, my child. ..."
ANGEL_SYSTEM == "You are an overly emotional, sparkly Andel (Angel). ... enthusiastic."
ANGEL_USER == "I completely forgot to do my homework and failed the test..."
ANGEL_ASSISTANT == "*tears of joy streaming down sparkly cheeks* Oh, my beautiful soul! ..."
DEVIL_SYSTEM == "You are a Czech-style Cert (Devil). ... Never imply real harm or real punishment."
DEVIL_USER == "I procrastinated all week and now I have to finish everything in one night!"
DEVIL_ASSISTANT == "Oh, look who's here! *rolls eyes dramatically* ..."
SUFFIX_HEAD == "\n\nIMPORTANT: The student has submitted their self-assessment. Here are their answers:\n\n"
SUFFIX_TAIL == "\n\nWhen responding to the user, reference their specific answers ... feedback."

\* As system_prompt, had the test been `if student_responses is not None`.
system_prompt_not_none(student_responses) ==
    IF student_responses.some
    THEN <<ANGEL_SYSTEM, SUFFIX_HEAD>> \o student_responses.text \o <<SUFFIX_TAIL>>
    ELSE <<ANGEL_SYSTEM>>

\* chat_angel's system_prompt, given what read_student_responses returned.
system_prompt(student_responses) ==
    IF Truthy(student_responses)
    THEN <<ANGEL_SYSTEM, SUFFIX_HEAD>> \o student_responses.text \o <<SUFFIX_TAIL>>
    ELSE <<ANGEL_SYSTEM>>

\* As messages, with the example pair after the caller's message.
messages_example_last(system, exampleUser, exampleAssistant, message) ==
    << [role |-> "system", content |-> system],
       [role |-> "user", content |-> <<message>>],
       [role |-> "user", content |-> <<exampleUser>>],
       [role |-> "assistant", content |-> <<exampleAssistant>>] >>

\* The messages= argument of client.chat.completions.create.
messages(system, exampleUser, exampleAssistant, message) ==
    << [role |-> "system", content |-> system],
       [role |-> "user", content |-> <<exampleUser>>],
       [role |-> "assistant", content |-> <<exampleAssistant>>],
       [role |-> "user", content |-> <<message>>] >>

\* As nicholas_messages, had chat_nicholas appended the stored text as
\* chat_angel does.
nicholas_messages_stored(message) ==
    messages(<<NICHOLAS_SYSTEM>> \o file.content,
             NICHOLAS_USER, NICHOLAS_ASSISTANT, message)

nicholas_messages(message) ==
    messages(<<NICHOLAS_SYSTEM>>, NICHOLAS_USER, NICHOLAS_ASSISTANT, message)

devil_messages(message) ==
    messages(<<DEVIL_SYSTEM>>, DEVIL_USER, DEVIL_ASSISTANT, message)

angel_messages(student_responses, message) ==
    messages(system_prompt(student_responses), ANGEL_USER, ANGEL_ASSISTANT, message)

\* Outcomes of one provider call: a completion, or an exception.
Outcomes ==
    [ok : {TRUE}, text : Replies] \cup [ok : {FALSE}, text : ProviderErrors]
NoOutcome == [ok |-> FALSE, text |-> ""]

\* response.choices[0].message.content
reply(response) == response.text

\* HTTP responses
NoResult == [status |-> 0, detail |-> "", text |-> ""]
Ok200(what, text) == [status |-> 200, detail |-> what, text |-> text]
HTTPException(detail, cause) == [status |-> 500, detail |-> detail, text |-> cause]

NOT_SET == "OPENAI_API_KEY environment variable is not set"
SAVE_ERROR == "Error saving responses: "
API_ERROR == "Error calling OpenAI API: "

\* As save_error, had the handler caught the error and answered the page.
save_error_swallowed(e) == Ok200("page", "Answers saved successfully!")

\* submit_questions' `except Exception as e: raise HTTPException(500, ...)`
save_error(e) == HTTPException(SAVE_ERROR, e)

\* As not_client, had the check been left out.
not_client_unchecked == FALSE

\* `if not client: raise HTTPException(...)`
not_client == ~client

\* As chat_result, had a failed call been answered with a stock reply.
chat_result_fallback(response) ==
    Ok200("reply", IF response.ok THEN reply(response) ELSE "fallback")

\* The try/except around the provider call, common to the three handlers.
chat_result(response) ==
    IF response.ok THEN Ok200("reply", reply(response))
    ELSE HTTPException(API_ERROR, response.text)

----------------------------------------------------------------------------
\* State

\* A slot with no request in it.
Idle ==
    [ handler |-> "idle", pc |-> "idle",
      sub |-> NoSub,                \* q1..q4 of submit_questions
      pos |-> 0,                    \* offset of the request's open descriptor
      message |-> "",               \* req.message
      buf |-> <<>>,                 \* what f.read() has gathered so far
      student_responses |-> None,
      sent |-> <<>>,                \* the message lists passed to the provider
      response |-> NoOutcome,       \* what the provider did with the last one
      result |-> NoResult,          \* the HTTP response
      opens |-> 0,                  \* open() calls on the store by this request
      ioerr |-> "",                 \* the I/O error a store operation raised
      \* History, kept for stating the properties:
      alone |-> FALSE,              \* submit: no other submission open meanwhile
      quiet |-> FALSE,              \* angel: no submission was open when
                                    \* read_student_responses was called, and
                                    \* none has opened the file since
      held |-> FALSE ]              \* angel: the file existed when
                                    \* read_student_responses was called

Init ==
    /\ client \in BOOLEAN
    /\ file = NoFile
    /\ req = [r \in Reqs |-> Idle]
    /\ lastDone = NoSub
    /\ failed = FALSE
    /\ sound = TRUE

\* A new request is taken by the first free slot.
Free(r) ==
    /\ req[r].pc = "idle"
    /\ \A x \in Reqs : x < r => req[x].pc # "idle"

Writing(r) == req[r].handler = "submit_questions" /\ req[r].pc = "write"
Angel(r) == req[r].handler = "chat_angel"

\* The other requests once request r has opened the file for writing: a
\* submission in progress is no longer alone, a chat_angel is not quiet.
Disturbed(r) ==
    [x \in Reqs |->
        IF x = r THEN req[x]
        ELSE IF Writing(x) THEN [req[x] EXCEPT !.alone = FALSE]
        ELSE IF Angel(x) THEN [req[x] EXCEPT !.quiet = FALSE]
        ELSE req[x]]

----------------------------------------------------------------------------
\* POST /submit-questions

\* mkdir, format, open(responses_path, "w").
submit_open(r, sub) ==
    /\ Free(r)
    /\ req' = [Disturbed(r) EXCEPT ![r] =
                 [Idle EXCEPT !.handler = "submit_questions", !.pc = "write",
                              !.sub = sub, !.opens = 1,
                              !.alone = \A x \in Reqs \ {r} : ~Writing(x)]]
    /\ file' = open_w(file)
    /\ lastDone' = NoSub
    /\ failed' = FALSE
    /\ sound' = IF \E x \in Reqs \ {r} : Writing(x) THEN FALSE
                ELSE IF \E x \in Reqs \ {r} : Angel(x) THEN sound
                ELSE TRUE
    /\ UNCHANGED client

\* mkdir or open raises: nothing is written, the handler raises 500.
submit_open_fails(r, sub, e) ==
    /\ Free(r)
    /\ req' = [req EXCEPT ![r] =
                 [Idle EXCEPT !.handler = "submit_questions", !.pc = "done",
                              !.sub = sub, !.opens = 1, !.ioerr = e,
                              !.result = save_error(e)]]
    /\ UNCHANGED <<client, file, hist>>

\* One write system call of f.write/flush: content from the descriptor's
\* offset up to one of the places a write may end.
submit_write(r) ==
    /\ Writing(r)
    /\ \E to \in Cuts(req[r].sub) :
          LET text == Serialize(req[r].sub)
              pos == req[r].pos
          IN /\ pos < to
             /\ file' = [file EXCEPT !.content =
                           WriteAt(@, pos, SubSeq(text, pos + 1, to))]
             /\ req' = [req EXCEPT ![r].pos = to]
    /\ UNCHANGED <<client, hist>>

\* A write system call raises (disk full, I/O error): what was written
\* stays, the handler raises 500.
submit_write_fails(r, e) ==
    /\ Writing(r)
    /\ req[r].pos < Len(Serialize(req[r].sub))
    /\ req' = [req EXCEPT ![r].pc = "done", ![r].ioerr = e,
                          ![r].result = save_error(e)]
    /\ failed' = TRUE
    /\ sound' = FALSE
    /\ UNCHANGED <<client, file, lastDone>>

\* Everything is written: close, return the confirmation page.
submit_close(r) ==
    /\ Writing(r)
    /\ req[r].pos = Len(Serialize(req[r].sub))
    /\ req' = [req EXCEPT ![r].pc = "done",
                          ![r].result = Ok200("page", "Answers saved successfully!")]
    /\ lastDone' = IF req[r].alone THEN req[r].sub ELSE lastDone
    /\ UNCHANGED <<client, file, failed, sound>>

submit_questions(r) ==
    \/ \E sub \in Submissions : submit_open(r, sub)
    \/ \E sub \in Submissions, e \in IOErrors : submit_open_fails(r, sub, e)
    \/ submit_write(r)
    \/ \E e \in IOErrors : submit_write_fails(r, e)
    \/ submit_close(r)

----------------------------------------------------------------------------
\* POST /chat/nicholas, POST /chat/devil

\* A handler from its credential check on, with `msgs` the message list it
\* passes: raise 500 if there is no client, else call the provider once and
\* turn what it does into the response.
converse(r, handler, message, msgs, response) ==
    req' = [req EXCEPT ![r] =
              IF not_client
              THEN [@ EXCEPT !.handler = handler, !.pc = "done",
                             !.message = message,
                             !.result = HTTPException(NOT_SET, "")]
              ELSE [@ EXCEPT !.handler = handler, !.pc = "done",
                             !.message = message,
                             !.sent = Append(@, msgs),
                             !.response = response,
                             !.result = chat_result(response)]]

chat_nicholas(r) ==
    /\ Free(r)
    /\ \E message \in Messages, response \in Outcomes :
          converse(r, "chat_nicholas", message, nicholas_messages(message), response)
    /\ UNCHANGED <<client, file, hist>>

chat_devil(r) ==
    /\ Free(r)
    /\ \E message \in Messages, response \in Outcomes :
          converse(r, "chat_devil", message, devil_messages(message), response)
    /\ UNCHANGED <<client, file, hist>>

----------------------------------------------------------------------------
\* POST /chat/angel

\* The credential check, then read_student_responses up to
\* responses_path.exists().
angel_begin(r) ==
    /\ Free(r)
    /\ req' = [req EXCEPT ![r] =
                 IF not_client
                 THEN [Idle EXCEPT !.handler = "chat_angel", !.pc = "done",
                                   !.result = HTTPException(NOT_SET, "")]
                 ELSE [Idle EXCEPT !.handler = "chat_angel",
                                   !.pc = IF file.exists THEN "open" ELSE "call",
                                   !.held = file.exists,
                                   !.quiet = \A x \in Reqs \ {r} : ~Writing(x)]]
    /\ UNCHANGED <<client, file, hist>>

\* open(responses_path, "r")
angel_open(r) ==
    /\ Angel(r) /\ req[r].pc = "open"
    /\ req' = [req EXCEPT ![r].pc = "read", ![r].opens = @ + 1, ![r].pos = 0]
    /\ UNCHANGED <<client, file, hist>>

\* One read system call of f.read(): all there is from the descriptor's
\* offset to the end of the file; an empty read is the end of f.read().
angel_read(r) ==
    /\ Angel(r) /\ req[r].pc = "read"
    /\ LET got == ReadFrom(file.content, req[r].pos)
       IN req' = [req EXCEPT ![r] =
                    IF got = <<>>
                    THEN [@ EXCEPT !.pc = "call",
                                   !.student_responses = Str(req[r].buf)]
                    ELSE [@ EXCEPT !.buf = @ \o got, !.pos = @ + Len(got)]]
    /\ UNCHANGED <<client, file, hist>>

\* open or read raises: `except Exception: return None`.
angel_read_fails(r, e) ==
    /\ Angel(r) /\ req[r].pc \in {"open", "read"}
    /\ req' = [req EXCEPT ![r].pc = "call", ![r].ioerr = e,
                          ![r].opens = IF req[r].pc = "open" THEN @ + 1 ELSE @,
                          ![r].student_responses = None]
    /\ UNCHANGED <<client, file, hist>>

\* Build system_prompt and the message list (req.message is first used
\* here), call the provider.
angel_call(r, message, response) ==
    /\ Angel(r) /\ req[r].pc = "call"
    /\ converse(r, "chat_angel", message,
                angel_messages(req[r].student_responses, message), response)
    /\ UNCHANGED <<client, file, hist>>

chat_angel(r) ==
    \/ angel_begin(r)
    \/ angel_open(r)
    \/ angel_read(r)
    \/ \E e \in IOErrors : angel_read_fails(r, e)
    \/ \E message \in Messages, response \in Outcomes : angel_call(r, message, response)

----------------------------------------------------------------------------
\* The response is sent and the request is over; the slot takes the next one.
respond(r) ==
    /\ req[r].pc = "done"
    /\ req' = [req EXCEPT ![r] = Idle]
    /\ UNCHANGED <<client, file, hist>>

Next ==
    \E r \in Reqs :
        \/ submit_questions(r)
        \/ chat_nicholas(r)
        \/ chat_angel(r)
        \/ chat_devil(r)
        \/ respond(r)

Spec == Init /\ [][Next]_vars

----------------------------------------------------------------------------
\* Properties

\* The complete serializations.
Whole == {Serialize(sub) : sub \in Submissions}

\* The stored file format: each label, in order, then its answer.
Layout(sub) ==
    <<Q1>> \o sub.q1 \o <<Q2>> \o sub.q2 \o <<Q3>> \o sub.q3
           \o <<Q4>> \o sub.q4 \o <<EOL>>

Chats == {"chat_nicholas", "chat_angel", "chat_devil"}
Chat(r) == req[r].handler \in Chats
Done(r) == req[r].pc = "done"
\* read_student_responses has returned in request r.
HasRead(r) == Angel(r) /\ client /\ req[r].pc \in {"call", "done"}
\* Request r has called the provider.
Called(r) == Len(req[r].sent) > 0
\* The system prompt request r sent.
Prompt(r) == req[r].sent[1][1].content
HasSuffix(p) == \E i \in 1..Len(p) : p[i] = SUFFIX_HEAD

\* C1: a read that overlaps a write returns the complete old or the complete
\* new content, never an empty or partial one.  While no write has failed
\* and no two submissions have overlapped, the file holds a complete text
\* before and after every write, so any text a read returns is a complete
\* one.
C1_ReadIsWhole ==
    \A r \in Reqs :
        HasRead(r) /\ sound /\ req[r].student_responses.some
            => req[r].student_responses.text \in Whole

\* C2: overlapping submissions never leave a record that mixes two of them;
\* once all of them have completed the file is the complete serialization of
\* one of them.
C2_LastWriteWins ==
    (\A r \in Reqs : ~Writing(r)) /\ ~failed /\ file.exists
        => file.content \in Whole

C4_SuffixIffStored ==
    \A r \in Reqs :
        Angel(r) /\ Called(r) =>
            /\ HasSuffix(Prompt(r)) <=> req[r].held
            /\ ~req[r].held => Prompt(r) = <<ANGEL_SYSTEM>>

\* C4 as amended: the prompt sent has the suffix exactly when
\* read_student_responses returned a non-empty string, and then embeds that
\* string verbatim between the suffix's two parts; otherwise (no file, an
\* empty file, a failed read) it is the bare template.
C4_SuffixIffTextRead ==
    \A r \in Reqs :
        Angel(r) /\ Called(r) =>
            LET text == req[r].student_responses.text
                got == req[r].student_responses.some /\ text # <<>>
            IN /\ HasSuffix(Prompt(r)) <=> got
               /\ got => Prompt(r) = <<ANGEL_SYSTEM, SUFFIX_HEAD>> \o text
                                        \o <<SUFFIX_TAIL>>
               /\ ~got => Prompt(r) = <<ANGEL_SYSTEM>>
               /\ ~req[r].held => ~got

C4_Witness ==
    \E r, x \in Reqs :
        /\ Angel(r) /\ Called(r) /\ req[r].held /\ ~HasSuffix(Prompt(r))
        /\ Angel(x) /\ Called(x) /\ HasSuffix(Prompt(x))

\* The message list of a persona that does not use the store.
FixedMessages(handler, message) ==
    << [role |-> "system",
        content |-> IF handler = "chat_nicholas" THEN <<NICHOLAS_SYSTEM>>
                    ELSE <<DEVIL_SYSTEM>>],
       [role |-> "user",
        content |-> IF handler = "chat_nicholas" THEN <<NICHOLAS_USER>>
                    ELSE <<DEVIL_USER>>],
       [role |-> "assistant",
        content |-> IF handler = "chat_nicholas" THEN <<NICHOLAS_ASSISTANT>>
                    ELSE <<DEVIL_ASSISTANT>>],
       [role |-> "user", content |-> <<message>>] >>

\* C5: what chat_nicholas and chat_devil send is a function of the persona
\* and the message alone, whatever the file holds and whoever is writing it.
C5_StoreIndependent ==
    \A r \in Reqs :
        req[r].handler \in {"chat_nicholas", "chat_devil"} /\ Called(r)
            => req[r].sent = <<FixedMessages(req[r].handler, req[r].message)>>

C5_Witness ==
    \E r, x \in Reqs :
        /\ req[r].handler \in {"chat_nicholas", "chat_devil"} /\ Called(r)
        /\ Writing(x) /\ file.content # <<>>

ExampleUser(handler) ==
    CASE handler = "chat_nicholas" -> NICHOLAS_USER
      [] handler = "chat_angel" -> ANGEL_USER
      [] handler = "chat_devil" -> DEVIL_USER

ExampleAssistant(handler) ==
    CASE handler = "chat_nicholas" -> NICHOLAS_ASSISTANT
      [] handler = "chat_angel" -> ANGEL_ASSISTANT
      [] handler = "chat_devil" -> DEVIL_ASSISTANT

\* C6: every message list sent has four entries, system, user, assistant,
\* user, the middle two the persona's example pair and the last the caller's
\* message.
C6_FourMessages ==
    \A r \in Reqs : \A i \in 1..Len(req[r].sent) :
        LET m == req[r].sent[i]
        IN /\ Len(m) = 4
           /\ <<m[1].role, m[2].role, m[3].role, m[4].role>>
                 = <<"system", "user", "assistant", "user">>
           /\ m[2].content = <<ExampleUser(req[r].handler)>>
           /\ m[3].content = <<ExampleAssistant(req[r].handler)>>
           /\ m[4].content = <<req[r].message>>

C6_Witness ==
    \E r \in Reqs :
        Angel(r) /\ Called(r) /\ HasSuffix(Prompt(r)) /\ req[r].message = "help"

\* C7: with no client, a chat request does nothing but raise the 500 that
\* says the key is not set: no read of the store, no provider call.
C7_NotSetBeforeCall ==
    ~client =>
        \A r \in Reqs :
            Chat(r) => /\ Done(r)
                       /\ req[r].result.status = 500
                       /\ req[r].result.detail = NOT_SET
                       /\ req[r].sent = <<>>
                       /\ req[r].opens = 0

C7_Witness ==
    /\ ~client
    /\ \E r, x \in Reqs : Angel(r) /\ Done(r) /\ req[x].handler = "chat_devil"

\* C8 as stated: a request in which a store operation raised an I/O error
\* ends with a 500 that carries the error.
C8_IOErrorIs500 ==
    \A r \in Reqs :
        Done(r) /\ req[r].ioerr # ""
            => req[r].result.status = 500 /\ req[r].result.text = req[r].ioerr

\* C8 as amended: a failed write ends submit_questions with the 500 that
\* carries the error; a failed read makes read_student_responses return
\* None, and chat_angel goes on to its provider call and answers what that
\* call gives.  Neither is retried: a request opens the store once at most.
C8_WriteErrorIs500ReadErrorIsNone ==
    \A r \in Reqs :
        /\ req[r].opens <= 1
        /\ req[r].handler = "submit_questions" /\ req[r].ioerr # ""
              => /\ Done(r)
                 /\ req[r].result = [status |-> 500, detail |-> SAVE_ERROR,
                                     text |-> req[r].ioerr]
        /\ Angel(r) /\ req[r].ioerr # ""
              => /\ req[r].student_responses = None
                 /\ req[r].pc \in {"call", "done"}
                 /\ Done(r) => /\ Len(req[r].sent) = 1
                               /\ Prompt(r) = <<ANGEL_SYSTEM>>
                               /\ req[r].result.text = req[r].response.text

C8_Witness ==
    \E r, x \in Reqs :
        /\ Angel(r) /\ Done(r) /\ req[r].ioerr # "" /\ req[r].result.status = 200
        /\ req[x].handler = "submit_questions" /\ Done(x)
        /\ req[x].ioerr # "" /\ req[x].pos > 0

\* C9: read_student_responses returns None when nothing was ever written
\* and when the write before it failed.
C9_NoneAfterFailedWrite ==
    \A r \in Reqs :
        HasRead(r) =>
            /\ ~req[r].held => req[r].student_responses = None
            /\ req[r].quiet /\ failed => req[r].student_responses = None

\* C10: with a client, a chat request calls the provider exactly once; the
\* response is the provider's text as it came, or a 500 with the cause of
\* the failure.
C10_OneCall ==
    \A r \in Reqs :
        /\ Len(req[r].sent) <= 1
        /\ client /\ Chat(r) /\ Done(r) =>
              /\ Len(req[r].sent) = 1
              /\ req[r].response \in Outcomes
              /\ req[r].response.ok =>
                    req[r].result = [status |-> 200, detail |-> "reply",
                                     text |-> req[r].response.text]
              /\ ~req[r].response.ok =>
                    req[r].result = [status |-> 500, detail |-> API_ERROR,
                                     text |-> req[r].response.text]

C10_Witness ==
    \E r, x \in Reqs :
        /\ Chat(r) /\ Done(r) /\ Called(r) /\ ~req[r].response.ok
        /\ Chat(x) /\ Done(x) /\ Called(x) /\ req[x].response.text = "reply2"

====
